---- MODULE Spec2Model ----
(***************************************************************************)
(* Model of the two batch enrichment scripts of the housing dashboard:     *)
(*   api/geo-enrich.js        (state, county and metro fills by ZIP)       *)
(*   the metro enrichment script (county name -> FIPS -> CBSA title)       *)
(* One run of one script is one behaviour.  Strings the scripts compute    *)
(* with are sequences of one-character strings; NULL and undefined are     *)
(* one-element sequences holding a token no real string contains.          *)
(***************************************************************************)
EXTENDS Integers, Sequences, FiniteSets, TLC

\* ------------------------------------------------------------------ bounds
MaxRows == 2

MaxStatements == MaxRows + 2

\* --------------------------------------------------------------- constants
MaxRedirects == 5

DefaultBatchSize == 500

METRO_BATCH_SIZE == 500

ZipWidth == 5

FipsWidth == 5

\* ----------------------------------------------------------------- strings
NULL == <<"<null>">>

Undefined == <<"<undefined>">>

Empty == <<>>

\* JS truthiness of a string-or-null value
Truthy(s) == s # NULL /\ s # Undefined /\ s # Empty

\* (x || '')
OrEmpty(s) == IF Truthy(s) THEN s ELSE Empty

RECURSIVE PadStart(_, _, _)
PadStart(s, n, c) == IF Len(s) >= n THEN s ELSE PadStart(<<c>> \o s, n, c)

Digits == <<"0", "1", "2", "3", "4", "5", "6", "7", "8", "9">>

IsDigit(c) == \E d \in 1..10 : Digits[d] = c

DigitVal(c) == (CHOOSE d \in 1..10 : Digits[d] = c) - 1

IsSpace(c) == c \in {" ", "\t", "\r", "\n"}

RECURSIVE TrimLeft(_)
TrimLeft(s) == IF s # <<>> /\ IsSpace(Head(s)) THEN TrimLeft(Tail(s)) ELSE s

RECURSIVE TrimRight(_)
TrimRight(s) ==
  IF s # <<>> /\ IsSpace(s[Len(s)]) THEN TrimRight(SubSeq(s, 1, Len(s) - 1)) ELSE s

Trim(s) == TrimRight(TrimLeft(s))

\* Node's parseInt(string) in radix 10: leading white space, an optional sign,
\* then the longest prefix of decimal digits; NaN when there is none.
NaN == [nan |-> TRUE, val |-> 0]

Num(n) == [nan |-> FALSE, val |-> n]

RECURSIVE DigitsPrefixValue(_, _)
DigitsPrefixValue(s, acc) ==
  IF s # <<>> /\ IsDigit(Head(s))
    THEN DigitsPrefixValue(Tail(s), 10 * acc + DigitVal(Head(s)))
    ELSE acc

parseInt(v) ==
  IF v = Undefined THEN NaN
  ELSE LET t == TrimLeft(v)
           neg == t # <<>> /\ Head(t) = "-"
           u == IF t # <<>> /\ Head(t) \in {"-", "+"} THEN Tail(t) ELSE t
       IN IF u = <<>> \/ ~IsDigit(Head(u)) THEN NaN
          ELSE IF neg THEN Num(0 - DigitsPrefixValue(u, 0))
          ELSE Num(DigitsPrefixValue(u, 0))

\* parseInt(...) || 500 : NaN and 0 are falsy
BatchSizeOf(v) ==
  LET n == parseInt(v) IN IF n.nan \/ n.val = 0 THEN DefaultBatchSize ELSE n.val

\* The text after "--batch-size=" on the command line (Undefined: option absent)
BatchArgs ==
  { Undefined, <<"0">>, <<"-", "1">>, <<"1">>, <<"a">>, <<"2", "a">> }


\* --------------------------------------------------------- JS array helpers
\* Array.prototype.slice(start, end) with JS index normalisation
Slice(s, start, end) ==
  LET n == Len(s)
      a == IF start < 0 THEN (IF n + start < 0 THEN 0 ELSE n + start)
           ELSE (IF start > n THEN n ELSE start)
      b == IF end < 0 THEN (IF n + end < 0 THEN 0 ELSE n + end)
           ELSE (IF end > n THEN n ELSE end)
  IN IF b <= a THEN <<>> ELSE SubSeq(s, a + 1, b)

\* header.indexOf(name) / header.findIndex(h => regex.test(h)), 1-based; 0: none
FindIndex(header, matching) ==
  IF \E k \in 1..Len(header) : header[k] \in matching
    THEN CHOOSE k \in 1..Len(header) :
           header[k] \in matching /\ \A j \in 1..(k - 1) : header[j] \notin matching
    ELSE 0

\* row[idx] : undefined outside the row
Cell(row, idx) == IF idx \in 1..Len(row) THEN row[idx] ELSE Undefined

\* Map.get / Map.set on functions
MapGet(m, k) == IF k \in DOMAIN m THEN m[k] ELSE Undefined

MapSet(m, k, v) == [x \in DOMAIN m \cup {k} |-> IF x = k THEN v ELSE m[x]]

EmptyMap == [x \in {} |-> Empty]

\* ------------------------------------------------------------ sample values
Z787 == <<"7", "8", "7", "0", "1">>

Z005 == <<"0", "0", "5", "0", "1">>

Z501 == <<"5", "0", "1">>

Z502 == <<"5", "0", "2">>

ZLong == <<"1", "2", "3", "4", "5", "6">>

TX == <<"T", "X">>

CA == <<"C", "A">>

NY == <<"N", "Y">>

NM == <<"N", "M">>

Lee == <<"L", "e", "e">>

Kit == <<"K", "i", "t">>

CountySuffix == <<" ", "C", "o", "u", "n", "t", "y">>

MetroA == <<"A">>

MetroN == <<"N">>

MetroOld == <<"O">>

\* ------------------------------------------------ remote files (after parse)
\* geo-data.csv as parseCSV returns it: header names, rows of trimmed cells
GeoFiles ==
  { [header |-> <<"state_abbr", "zipcode", "county">>,
     rows |-> << <<TX, Z787, Lee>>, <<NY, Z502, Kit>>, <<CA, Z787, Kit>> >>],
    [header |-> <<"state_abbr", "zipcode">>,
     rows |-> << <<Empty, Z787>>, <<NY, ZLong>>, <<NM, Z501>> >>] }

\* zip_cbsa.csv: with a metro-name column, with CBSA codes only, with neither
CbsaFiles ==
  { [header |-> <<"zip", "cbsa_name">>,
     rows |-> << <<Z787, MetroA>>, <<Z501, MetroN>>, <<ZLong, MetroN>> >>],
    [header |-> <<"zip", "cbsa">>,
     rows |-> << <<Z787, <<"1">> >>, <<Z501, <<"2">> >> >>],
    [header |-> <<"zip", "other">>,
     rows |-> << <<Z787, MetroA>> >>] }

\* cbsa.csv
NamesFiles ==
  { [header |-> <<"cbsa_code", "cbsa_title">>,
     rows |-> << <<<<"1">>, MetroN>>, <<<<"1">>, MetroA>> >>],
    [header |-> <<"other">>,
     rows |-> << <<MetroA>> >>] }

\* column names matched by the header regular expressions of geo-enrich.js
ReZip == {"zip"}

ReCbsa == {"cbsa", "cbsa_name", "cbsa_code", "cbsa_title"}

ReMetroName == {"cbsa_name", "cbsa_title"}

ReCode == {"cbsa_code"}

ReTitle == {"cbsa_name", "cbsa_title"}

\* what zipcodes.lookup knows: zip -> record with a state (absent: undefined)
PackageDBs ==
  { (Z787 :> [state |-> CA]) @@ (Z005 :> [state |-> NY]),
    (Z787 :> [state |-> Empty]) }

\* ------------------------------------------------------ geo-enrich.js, pure
RECURSIVE BuildZipGeo(_, _, _)
BuildZipGeo(file, k, m) ==
  IF k > Len(file.rows) THEN m
  ELSE LET row == file.rows[k]
           stateIdx == FindIndex(file.header, {"state_abbr"})
           zipIdx == FindIndex(file.header, {"zipcode"})
           countyIdx == FindIndex(file.header, {"county"})
           zip == PadStart(OrEmpty(Cell(row, zipIdx)), ZipWidth, "0")
           state == OrEmpty(Cell(row, stateIdx))
           county == OrEmpty(Cell(row, countyIdx))
           entry == [state_abbr |-> state,
                     county_name |-> IF Truthy(county) THEN county \o CountySuffix
                                     ELSE Empty]
       IN IF Len(zip) # ZipWidth \/ zip \in DOMAIN m
            THEN BuildZipGeo(file, k + 1, m)
            ELSE BuildZipGeo(file, k + 1, MapSet(m, zip, entry))

\* SELECT DISTINCT zip_code FROM housing_stats, in order of first occurrence
RECURSIVE DistinctZips(_, _)
DistinctZips(tbl, k) ==
  IF k = 0 THEN <<>>
  ELSE LET rest == DistinctZips(tbl, k - 1)
       IN IF \E j \in 1..(k - 1) : tbl[j].zip_code = tbl[k].zip_code
            THEN rest ELSE Append(rest, tbl[k].zip_code)

FillFromPackage_Overrides(m, zip, db) ==
  IF zip \in DOMAIN db
    THEN MapSet(m, zip, [state_abbr |-> OrEmpty(db[zip].state),
                         county_name |-> IF zip \in DOMAIN m THEN m[zip].county_name
                                         ELSE Empty])
    ELSE m

\* one iteration of the zipcodes-package loop
FillFromPackage(m, zip, db) ==
  IF zip \notin DOMAIN m
    THEN IF zip \in DOMAIN db
           THEN MapSet(m, zip, [state_abbr |-> OrEmpty(db[zip].state),
                                county_name |-> Empty])
           ELSE m
    ELSE IF ~Truthy(m[zip].state_abbr)
           THEN IF zip \in DOMAIN db /\ Truthy(db[zip].state)
                  THEN MapSet(m, zip, [m[zip] EXCEPT !.state_abbr = db[zip].state])
                  ELSE m
           ELSE m

RECURSIVE FillAllFromPackage(_, _, _, _)
FillAllFromPackage(m, zips, k, db) ==
  IF k > Len(zips) THEN m
  ELSE FillAllFromPackage(FillFromPackage(m, zips[k], db), zips, k + 1, db)

RECURSIVE BuildZipMetro(_, _, _, _, _)
BuildZipMetro(rows, zipCol, valCol, k, m) ==
  IF k > Len(rows) THEN m
  ELSE LET zip == PadStart(OrEmpty(Cell(rows[k], zipCol)), ZipWidth, "0")
           val == OrEmpty(Cell(rows[k], valCol))
       IN IF Len(zip) = ZipWidth /\ Truthy(val)
            THEN BuildZipMetro(rows, zipCol, valCol, k + 1, MapSet(m, zip, val))
            ELSE BuildZipMetro(rows, zipCol, valCol, k + 1, m)

RECURSIVE BuildNameMap(_, _, _, _, _)
BuildNameMap(rows, codeCol, titleCol, k, m) ==
  IF k > Len(rows) THEN m
  ELSE BuildNameMap(rows, codeCol, titleCol, k + 1,
                    MapSet(m, Cell(rows[k], codeCol), Cell(rows[k], titleCol)))

\* for (const [zip, cbsa] of cbsaCodes) { name = nameMap.get(cbsa); ... }
JoinNames(codes, nameMap) ==
  LET named == {z \in DOMAIN codes : Truthy(MapGet(nameMap, codes[z]))}
  IN [z \in named |-> nameMap[codes[z]]]

Missing(v) == ~Truthy(v)

\* the WHERE clause of the update-list query
NeedsFill(row) ==
  Missing(row.state_abbr) \/ Missing(row.county_name) \/ Missing(row.metro_area)

\* one iteration of the update-list loop: <<>> or a one-element list
GeoUpdateFor(row, geoMap, metroMap) ==
  LET hasGeo == row.zip_code \in DOMAIN geoMap
      hasMetro == row.zip_code \in DOMAIN metroMap
      st == IF Missing(row.state_abbr) /\ hasGeo /\ Truthy(geoMap[row.zip_code].state_abbr)
              THEN geoMap[row.zip_code].state_abbr ELSE NULL
      co == IF Missing(row.county_name) /\ hasGeo /\ Truthy(geoMap[row.zip_code].county_name)
              THEN geoMap[row.zip_code].county_name ELSE NULL
      me == IF Missing(row.metro_area) /\ hasMetro /\ Truthy(metroMap[row.zip_code])
              THEN metroMap[row.zip_code] ELSE NULL
  IN IF ~hasGeo /\ ~hasMetro THEN <<>>
     ELSE IF st = NULL /\ co = NULL /\ me = NULL THEN <<>>
     ELSE << [zip_code |-> row.zip_code, state_abbr |-> st,
              county_name |-> co, metro_area |-> me] >>

RECURSIVE GeoBuildUpdates(_, _, _, _)
GeoBuildUpdates(tbl, k, geoMap, metroMap) ==
  IF k = 0 THEN <<>>
  ELSE GeoBuildUpdates(tbl, k - 1, geoMap, metroMap)
       \o (IF NeedsFill(tbl[k]) THEN GeoUpdateFor(tbl[k], geoMap, metroMap) ELSE <<>>)

Coalesce(a, b) == IF a # NULL THEN a ELSE b

\* the four parallel arrays of one UPDATE statement
GeoStatement(batch) ==
  [zips |-> [k \in 1..Len(batch) |-> batch[k].zip_code],
   states |-> [k \in 1..Len(batch) |-> batch[k].state_abbr],
   counties |-> [k \in 1..Len(batch) |-> batch[k].county_name],
   metros |-> [k \in 1..Len(batch) |-> batch[k].metro_area]]

\* entries of a statement that join with a row (h.zip_code = v.zip_code)
Matches(stmt, row) == {k \in 1..Len(stmt.zips) : stmt.zips[k] = row.zip_code}

\* pick[r] names the entry the database joins row r with (0: none joins)
ValidPick(tbl, stmt, pick) ==
  \A r \in 1..Len(tbl) :
    IF Matches(stmt, tbl[r]) = {} THEN pick[r] = 0 ELSE pick[r] \in Matches(stmt, tbl[r])

GeoApply(tbl, stmt, pick, now) ==
  [r \in 1..Len(tbl) |->
     IF pick[r] = 0 THEN tbl[r]
     ELSE [tbl[r] EXCEPT
             !.state_abbr = Coalesce(stmt.states[pick[r]], @),
             !.county_name = Coalesce(stmt.counties[pick[r]], @),
             !.metro_area = Coalesce(stmt.metros[pick[r]], @),
             !.updated_at = now]]

\* ------------------------------------------------- metro script, pure parts
Lowers == << "a", "b", "c", "d", "e", "f", "g", "h", "i", "j", "k", "l", "m",
             "n", "o", "p", "q", "r", "s", "t", "u", "v", "w", "x", "y", "z" >>

Uppers == << "A", "B", "C", "D", "E", "F", "G", "H", "I", "J", "K", "L", "M",
             "N", "O", "P", "Q", "R", "S", "T", "U", "V", "W", "X", "Y", "Z" >>

LowerChar(c) ==
  IF \E k \in 1..26 : Uppers[k] = c THEN Lowers[CHOOSE k \in 1..26 : Uppers[k] = c] ELSE c

UpperChar(c) ==
  IF \E k \in 1..26 : Lowers[k] = c THEN Uppers[CHOOSE k \in 1..26 : Lowers[k] = c] ELSE c

toLowerCase(s) == [k \in 1..Len(s) |-> LowerChar(s[k])]

toUpperCase(s) == [k \in 1..Len(s) |-> UpperChar(s[k])]

EndsWith(s, suf) ==
  Len(suf) <= Len(s) /\ SubSeq(s, Len(s) - Len(suf) + 1, Len(s)) = suf

\* s.replace(/ a$| b$|.../, ''): the match that starts leftmost, that is the
\* longest of the listed suffixes s ends with, is removed
RemoveSuffix(s, suffixes) ==
  LET found == {suf \in suffixes : EndsWith(s, suf)}
  IN IF found = {} THEN s
     ELSE LET longest == CHOOSE suf \in found : \A o \in found : Len(o) <= Len(suf)
          IN SubSeq(s, 1, Len(s) - Len(longest))

SufCounty == <<" ", "c", "o", "u", "n", "t", "y">>

SufParish == <<" ", "p", "a", "r", "i", "s", "h">>

SufBorough == <<" ", "b", "o", "r", "o", "u", "g", "h">>

SufCensusArea == <<" ", "c", "e", "n", "s", "u", "s", " ", "a", "r", "e", "a">>

SufMunicipality == <<" ", "m", "u", "n", "i", "c", "i", "p", "a", "l", "i", "t", "y">>

SufCityAndBorough ==
  <<" ", "c", "i", "t", "y", " ", "a", "n", "d", " ", "b", "o", "r", "o", "u", "g", "h">>

SufCity == <<" ", "c", "i", "t", "y">>

\* the suffixes removed from a county name of the FIPS file
FileSuffixes ==
  {SufCounty, SufParish, SufBorough, SufCensusArea, SufMunicipality,
   SufCityAndBorough, SufCity}

\* the suffixes removed from a county name of housing_stats
RowSuffixes == {SufCounty, SufParish, SufBorough, SufCensusArea, SufMunicipality}

StateFipsPairs ==
  {
     <<<<"A", "L">>, <<"0", "1">>>>, <<<<"A", "K">>, <<"0", "2">>>>, <<<<"A", "Z">>, <<"0", "4">>>>,
     <<<<"A", "R">>, <<"0", "5">>>>, <<<<"C", "A">>, <<"0", "6">>>>, <<<<"C", "O">>, <<"0", "8">>>>,
     <<<<"C", "T">>, <<"0", "9">>>>, <<<<"D", "E">>, <<"1", "0">>>>, <<<<"D", "C">>, <<"1", "1">>>>,
     <<<<"F", "L">>, <<"1", "2">>>>, <<<<"G", "A">>, <<"1", "3">>>>, <<<<"H", "I">>, <<"1", "5">>>>,
     <<<<"I", "D">>, <<"1", "6">>>>, <<<<"I", "L">>, <<"1", "7">>>>, <<<<"I", "N">>, <<"1", "8">>>>,
     <<<<"I", "A">>, <<"1", "9">>>>, <<<<"K", "S">>, <<"2", "0">>>>, <<<<"K", "Y">>, <<"2", "1">>>>,
     <<<<"L", "A">>, <<"2", "2">>>>, <<<<"M", "E">>, <<"2", "3">>>>, <<<<"M", "D">>, <<"2", "4">>>>,
     <<<<"M", "A">>, <<"2", "5">>>>, <<<<"M", "I">>, <<"2", "6">>>>, <<<<"M", "N">>, <<"2", "7">>>>,
     <<<<"M", "S">>, <<"2", "8">>>>, <<<<"M", "O">>, <<"2", "9">>>>, <<<<"M", "T">>, <<"3", "0">>>>,
     <<<<"N", "E">>, <<"3", "1">>>>, <<<<"N", "V">>, <<"3", "2">>>>, <<<<"N", "H">>, <<"3", "3">>>>,
     <<<<"N", "J">>, <<"3", "4">>>>, <<<<"N", "M">>, <<"3", "5">>>>, <<<<"N", "Y">>, <<"3", "6">>>>,
     <<<<"N", "C">>, <<"3", "7">>>>, <<<<"N", "D">>, <<"3", "8">>>>, <<<<"O", "H">>, <<"3", "9">>>>,
     <<<<"O", "K">>, <<"4", "0">>>>, <<<<"O", "R">>, <<"4", "1">>>>, <<<<"P", "A">>, <<"4", "2">>>>,
     <<<<"R", "I">>, <<"4", "4">>>>, <<<<"S", "C">>, <<"4", "5">>>>, <<<<"S", "D">>, <<"4", "6">>>>,
     <<<<"T", "N">>, <<"4", "7">>>>, <<<<"T", "X">>, <<"4", "8">>>>, <<<<"U", "T">>, <<"4", "9">>>>,
     <<<<"V", "T">>, <<"5", "0">>>>, <<<<"V", "A">>, <<"5", "1">>>>, <<<<"W", "A">>, <<"5", "3">>>>,
     <<<<"W", "V">>, <<"5", "4">>>>, <<<<"W", "I">>, <<"5", "5">>>>, <<<<"W", "Y">>, <<"5", "6">>>>,
     <<<<"A", "S">>, <<"6", "0">>>>, <<<<"G", "U">>, <<"6", "6">>>>, <<<<"M", "P">>, <<"6", "9">>>>,
     <<<<"P", "R">>, <<"7", "2">>>>, <<<<"V", "I">>, <<"7", "8">>>> }

STATE_FIPS == [k \in {pr[1] : pr \in StateFipsPairs} |->
                 (CHOOSE pr \in StateFipsPairs : pr[1] = k)[2]]

\* property names every object inherits from Object.prototype that
\* toUpperCase leaves unchanged
ProtoKey == <<"_", "_", "p", "r", "o", "t", "o", "_", "_">>

InheritedKeys == {ProtoKey}

StateFipsTruthy_Any(state) == TRUE

\* !!STATE_FIPS[state]: an own key (all values are non-empty strings) or an
\* inherited property
StateFipsTruthy(state) == state \in DOMAIN STATE_FIPS \/ state \in InheritedKeys

StateFipsWidth == 2

CountyFipsWidth == 3

Key(state, name) == state \o <<"|">> \o name

\* column names matched by the header regular expressions of the metro script
ReFips == {"fipsstatecode", "fipscountycode", "fipscounty"}

ReFipsState == {"fipsstatecode", "statecode"}

ReCbsaTitle == {"cbsatitle"}

ReFipsExact == {"fips"}

ReCountyName == {"county_name", "name", "state_name"}

ReStateAbbr == {"state_abbr", "state", "state_name"}

RECURSIVE BuildFipsToMetro(_, _, _)
BuildFipsToMetro(file, k, m) ==
  IF k > Len(file.rows) THEN m
  ELSE LET vals == file.rows[k]
           fipsCol == FindIndex(file.header, ReFips)
           stateCol == FindIndex(file.header, ReFipsState)
           nameCol == FindIndex(file.header, ReCbsaTitle)
           sf == PadStart(OrEmpty(Cell(vals, stateCol)), StateFipsWidth, "0")
           cf == PadStart(OrEmpty(Cell(vals, fipsCol)), CountyFipsWidth, "0")
           fips == sf \o cf
           name == OrEmpty(Cell(vals, nameCol))
       IN IF Len(fips) = FipsWidth /\ Truthy(name)
            THEN BuildFipsToMetro(file, k + 1, MapSet(m, fips, name))
            ELSE BuildFipsToMetro(file, k + 1, m)

RECURSIVE BuildNameToFips(_, _, _)
BuildNameToFips(file, k, m) ==
  IF k > Len(file.rows) THEN m
  ELSE LET vals == file.rows[k]
           fipsCol == FindIndex(file.header, ReFipsExact)
           nameCol == FindIndex(file.header, ReCountyName)
           stateCol == FindIndex(file.header, ReStateAbbr)
           fips == PadStart(OrEmpty(Cell(vals, fipsCol)), FipsWidth, "0")
           name == toLowerCase(OrEmpty(Cell(vals, nameCol)))
           state == toUpperCase(OrEmpty(Cell(vals, stateCol)))
           short == Trim(RemoveSuffix(name, FileSuffixes))
       IN IF Len(fips) = FipsWidth /\ Truthy(name) /\ Truthy(state)
            THEN BuildNameToFips(file, k + 1,
                   MapSet(MapSet(m, Key(state, name), fips), Key(state, short), fips))
            ELSE BuildNameToFips(file, k + 1, m)

\* the county FIPS the matching loop finds for a row (Undefined: none)
RowShort(county) == Trim(RemoveSuffix(county, RowSuffixes))

FipsOf(state, county, nameToFips) ==
  IF Truthy(MapGet(nameToFips, Key(state, county)))
    THEN nameToFips[Key(state, county)]
    ELSE MapGet(nameToFips, Key(state, RowShort(county)))

\* the WHERE clause of the matching query
NeedsMetro(row) == Truthy(row.state_abbr) /\ Missing(row.metro_area)

\* one iteration of the matching loop: <<>> or a one-element list
MetroUpdateFor(row, nameToFips, fipsToMetro) ==
  LET state == row.state_abbr
      county == toLowerCase(OrEmpty(row.county_name))
      fips == FipsOf(state, county, nameToFips)
  IN IF ~StateFipsTruthy(state) \/ ~Truthy(county) THEN <<>>
     ELSE IF Truthy(fips) /\ Truthy(MapGet(fipsToMetro, fips))
       THEN << [zip_code |-> row.zip_code, metro_area |-> fipsToMetro[fips]] >>
       ELSE <<>>

RECURSIVE MetroBuildUpdates(_, _, _, _)
MetroBuildUpdates(tbl, k, nameToFips, fipsToMetro) ==
  IF k = 0 THEN <<>>
  ELSE MetroBuildUpdates(tbl, k - 1, nameToFips, fipsToMetro)
       \o (IF NeedsMetro(tbl[k]) THEN MetroUpdateFor(tbl[k], nameToFips, fipsToMetro)
           ELSE <<>>)

\* the two parallel arrays of one UPDATE statement
MetroStatement(batch) ==
  [zips |-> [k \in 1..Len(batch) |-> batch[k].zip_code],
   metros |-> [k \in 1..Len(batch) |-> batch[k].metro_area]]

MetroApply(tbl, stmt, pick, now) ==
  [r \in 1..Len(tbl) |->
     IF pick[r] = 0 THEN tbl[r]
     ELSE [tbl[r] EXCEPT !.metro_area = stmt.metros[pick[r]], !.updated_at = now]]

\* cbsa2fipsxw.csv after the split on commas
NberFiles ==
  { [header |-> <<"cbsatitle", "statecode", "fipscounty">>,
     rows |-> << <<MetroA, <<"4", "8">>, <<"1">> >>, <<MetroN, <<"3", "6">>, <<"2">> >>,
                 <<MetroN, <<"4", "8">>, <<"4", "8">> >>, <<Empty, <<"4", "8">>, <<"3">> >> >>],
    [header |-> <<"cbsatitle", "fipsstatecode", "fipscountycode">>,
     rows |-> << <<MetroN, <<"4", "8">>, <<"1">> >> >>],
    [header |-> <<"cbsa", "statecode", "fipscounty">>,
     rows |-> << <<MetroA, <<"4", "8">>, <<"1">> >> >>] }

F48001 == <<"4", "8", "0", "0", "1">>

F48048 == <<"4", "8", "0", "4", "8">>

F36002 == <<"3", "6", "0", "0", "2">>

\* county_fips_master.csv after parseRow
FipsFiles ==
  { [header |-> <<"fips", "county_name", "state_abbr">>,
     rows |-> << <<F48001, Lee \o CountySuffix, TX>>,
                 <<F48048, Kit \o <<" ", "C", "i", "t", "y">>, <<"t", "x">> >>,
                 <<F48001, Lee, ProtoKey>>,
                 <<F36002, Lee \o CountySuffix, <<"z", "z">> >>,
                 <<<<"1", "2", "3", "4", "5", "6">>, Kit, TX>> >>],
    [header |-> <<"fips", "name">>,
     rows |-> << <<F48001, Lee, TX>> >>] }

LeeCounty == Lee \o CountySuffix

MetroRows ==
  { [zip_code |-> Z787, state_abbr |-> TX, county_name |-> LeeCounty,
     metro_area |-> NULL, updated_at |-> 0],
    [zip_code |-> Z787, state_abbr |-> TX, county_name |-> Lee \o <<" ">>,
     metro_area |-> Empty, updated_at |-> 0],
    [zip_code |-> Z005, state_abbr |-> TX, county_name |-> Kit \o <<" ", "P", "a", "r", "i", "s", "h">>,
     metro_area |-> NULL, updated_at |-> 0],
    [zip_code |-> Z005, state_abbr |-> <<"Z", "Z">>, county_name |-> LeeCounty,
     metro_area |-> NULL, updated_at |-> 0],
    [zip_code |-> Z005, state_abbr |-> TX, county_name |-> NULL,
     metro_area |-> NULL, updated_at |-> 0],
    [zip_code |-> Z787, state_abbr |-> NULL, county_name |-> NULL,
     metro_area |-> MetroOld, updated_at |-> 0],
    [zip_code |-> Z005, state_abbr |-> ProtoKey, county_name |-> Lee,
     metro_area |-> NULL, updated_at |-> 0] }

\* ------------------------------------------------------------------- state
VARIABLES
  script,        \* which script this run executes: "geo" or "metro"
  argv,          \* command line: [dry |-> --dry-run given, batch |-> --batch-size text]
  pkg,           \* contents of the zipcodes package
  table,         \* housing_stats, a sequence of rows
  table0,        \* housing_stats when the run started
  pc,            \* the await point main() is at
  depth,         \* redirect depth of the download in flight
  calls,         \* URL -> number of download(url) calls made
  failedUrls,    \* URLs whose download was rejected
  entered,       \* step -> number of times it was entered
  zipGeo,        \* zip -> [state_abbr, county_name]
  cbsaCodes,     \* zip -> CBSA code
  zipMetro,      \* zip -> metro area name
  countyFipsToMetro,  \* county FIPS -> metro area name
  countyNameToFips,   \* "STATE|county name" -> county FIPS
  updates,       \* the update list
  i,             \* index of the batch loop
  sent,          \* parameters of the UPDATE statements issued, in order
  queries,       \* number of pool.query calls made
  dbFailed,      \* a pool.query call rejected
  poolEnded,     \* pool.end() was called
  exited         \* "no", or the exit status "0" / "1"

vars == << script, argv, pkg, table, table0, pc, depth, calls, failedUrls, entered,
           zipGeo, cbsaCodes, zipMetro, countyFipsToMetro, countyNameToFips,
           updates, i, sent, queries, dbFailed, poolEnded, exited >>

DRY_RUN == argv.dry

BATCH_SIZE == IF script = "geo" THEN BatchSizeOf(argv.batch) ELSE METRO_BATCH_SIZE

\* the URL each download step requests
UrlOf ==
  [p \in {"g_dl_geo", "g_dl_cbsa", "g_dl_names", "m_dl_nber", "m_dl_fallback",
          "m_dl_fips"} |->
     CASE p = "g_dl_geo" -> "scpike/us-state-county-zip/geo-data.csv"
       [] p = "g_dl_cbsa" -> "mwkracht/zip_to_cbsa/zip_cbsa.csv"
       [] p = "g_dl_names" -> "mwkracht/zip_to_cbsa/cbsa.csv"
       [] p = "m_dl_nber" -> "nber/cbsa2fipsxw.csv"
       [] p = "m_dl_fallback" -> "kjhealy/fips-codes/county_fips_master.csv"
       [] p = "m_dl_fips" -> "kjhealy/fips-codes/county_fips_master.csv"]

Urls == {UrlOf[p] : p \in DOMAIN UrlOf}

Steps ==
  {"g_gaps", "g_dl_geo", "g_allzips", "g_dl_cbsa", "g_dl_names", "g_build",
   "m_counties", "m_dl_nber", "m_dl_fallback", "m_dl_fips", "m_zips",
   "batch", "end", "done", "fatal"}

QuerySteps == {"g_gaps", "g_allzips", "g_build", "m_counties", "m_zips", "batch"}

AfterCbsa_NoAbort(fipsToMetro) == "m_dl_fips"

\* if (countyFipsToMetro.size === 0) { await pool.end(); return; }
AfterCbsa(fipsToMetro) == IF DOMAIN fipsToMetro = {} THEN "end" ELSE "m_dl_fips"

FailNext_NoCatch(p) == "fatal"

\* where a rejected download continues: the catch block, then the next step
FailNext(p) ==
  CASE p = "g_dl_geo" -> "g_allzips"
    [] p = "g_dl_cbsa" -> "g_build"
    [] p = "g_dl_names" -> "g_build"
    [] p = "m_dl_nber" -> "m_dl_fallback"
    [] p = "m_dl_fallback" -> AfterCbsa(countyFipsToMetro)
    [] p = "m_dl_fips" -> "m_zips"

AfterBuild_NoDryCheck(dry) == "batch"

\* if (DRY_RUN) { ...; await pool.end(); return; } else the batch loop
AfterBuild(dry) == IF dry THEN "end" ELSE "batch"

RejectNext_Retry(p) == p

\* main().catch(e => { ...; process.exit(1); })
RejectNext(p) == "fatal"

BatchOf_OffByOne(list, idx, size) == Slice(list, idx + 1, idx + size)

\* updates.slice(i, i + BATCH_SIZE)
BatchOf(list, idx, size) == Slice(list, idx, idx + size)

\* control moves to step p; a download step calls download(url)
Enter(p) ==
  /\ pc' = p
  /\ depth' = 0
  /\ entered' = [entered EXCEPT ![p] = @ + 1]
  /\ calls' = IF p \in DOMAIN UrlOf THEN [calls EXCEPT ![UrlOf[p]] = @ + 1] ELSE calls

GeoRows ==
  { [zip_code |-> Z787, state_abbr |-> NULL, county_name |-> NULL,
     metro_area |-> NULL, updated_at |-> 0],
    [zip_code |-> Z787, state_abbr |-> NM, county_name |-> Empty,
     metro_area |-> MetroOld, updated_at |-> 0],
    [zip_code |-> Z005, state_abbr |-> Empty, county_name |-> Empty,
     metro_area |-> Empty, updated_at |-> 0],
    [zip_code |-> Z005, state_abbr |-> NY, county_name |-> Kit \o CountySuffix,
     metro_area |-> MetroOld, updated_at |-> 0] }

TablesOf(rows) == UNION {[1..n -> rows] : n \in 1..MaxRows}

Init ==
  /\ script \in {"geo", "metro"}
  /\ argv \in [dry : BOOLEAN, batch : IF script = "geo" THEN BatchArgs ELSE {Undefined}]
  /\ pkg \in IF script = "geo" THEN PackageDBs ELSE {EmptyMap}
  /\ table \in TablesOf(IF script = "geo" THEN GeoRows ELSE MetroRows)
  /\ table0 = table
  /\ pc = IF script = "geo" THEN "g_gaps" ELSE "m_counties"
  /\ depth = 0
  /\ calls = [u \in Urls |-> 0]
  /\ failedUrls = {}
  /\ entered = [p \in Steps |-> IF p = pc THEN 1 ELSE 0]
  /\ zipGeo = EmptyMap
  /\ cbsaCodes = EmptyMap
  /\ zipMetro = EmptyMap
  /\ countyFipsToMetro = EmptyMap
  /\ countyNameToFips = EmptyMap
  /\ updates = <<>>
  /\ i = 0
  /\ sent = <<>>
  /\ queries = 0
  /\ dbFailed = FALSE
  /\ poolEnded = FALSE
  /\ exited = "no"

\* ------------------------------------------------------ actions, both scripts
\* a pool.query call rejects: main() rejects, the top-level catch exits with 1
QueryFails ==
  /\ pc \in QuerySteps
  /\ pc = "batch" /\ i < Len(updates) => Len(sent) < MaxStatements
  /\ queries' = queries + 1
  /\ dbFailed' = TRUE
  /\ pc' = RejectNext(pc)
  /\ exited' = IF pc' = "fatal" THEN "1" ELSE exited
  /\ UNCHANGED << countyFipsToMetro, countyNameToFips, script, argv, pkg, table, table0, depth, calls, failedUrls, entered,
                  zipGeo, cbsaCodes, zipMetro, updates, i, sent, poolEnded >>

\* the server answers 3xx with a location: get(loc, depth + 1)
Redirect ==
  /\ pc \in DOMAIN UrlOf
  /\ depth <= MaxRedirects
  /\ depth' = depth + 1
  /\ UNCHANGED << countyFipsToMetro, countyNameToFips, script, argv, pkg, table, table0, pc, calls, failedUrls, entered,
                  zipGeo, cbsaCodes, zipMetro, updates, i, sent, queries, dbFailed,
                  poolEnded, exited >>

\* the download promise rejects (too many redirects, a status other than 200,
\* a network error); the caller's catch logs it and the run goes on
DownloadFails ==
  /\ pc \in DOMAIN UrlOf
  /\ failedUrls' = failedUrls \cup {UrlOf[pc]}
  /\ Enter(FailNext(pc))
  /\ UNCHANGED << countyFipsToMetro, countyNameToFips, script, argv, pkg, table, table0, zipGeo, cbsaCodes, zipMetro,
                  updates, i, sent, queries, dbFailed, poolEnded, exited >>

\* await pool.end(); main() returns
PoolEnd ==
  /\ pc = "end"
  /\ poolEnded' = TRUE
  /\ exited' = "0"
  /\ Enter("done")
  /\ UNCHANGED << countyFipsToMetro, countyNameToFips, script, argv, pkg, table, table0, failedUrls, zipGeo, cbsaCodes,
                  zipMetro, updates, i, sent, queries, dbFailed >>

\* ------------------------------------------------------ actions, geo-enrich.js
\* Step 1: the gap counts; then download(csvUrl) is called
GeoQueryGaps ==
  /\ pc = "g_gaps"
  /\ queries' = queries + 1
  /\ Enter("g_dl_geo")
  /\ UNCHANGED << countyFipsToMetro, countyNameToFips, script, argv, pkg, table, table0, failedUrls, zipGeo, cbsaCodes,
                  zipMetro, updates, i, sent, dbFailed, poolEnded, exited >>

\* Step 2: the ZIP-to-county file arrived; build zipGeo
GeoDownloaded ==
  /\ pc = "g_dl_geo"
  /\ depth <= MaxRedirects
  /\ \E file \in GeoFiles : zipGeo' = BuildZipGeo(file, 1, EmptyMap)
  /\ Enter("g_allzips")
  /\ UNCHANGED << countyFipsToMetro, countyNameToFips, script, argv, pkg, table, table0, failedUrls, cbsaCodes, zipMetro,
                  updates, i, sent, queries, dbFailed, poolEnded, exited >>

\* Step 3: SELECT DISTINCT zip_code, the zipcodes-package loop; then
\* download(cbsaUrl) is called
GeoQueryAllZips ==
  /\ pc = "g_allzips"
  /\ queries' = queries + 1
  /\ zipGeo' = FillAllFromPackage(zipGeo, DistinctZips(table, Len(table)), 1, pkg)
  /\ Enter("g_dl_cbsa")
  /\ UNCHANGED << countyFipsToMetro, countyNameToFips, script, argv, pkg, table, table0, failedUrls, cbsaCodes, zipMetro,
                  updates, i, sent, dbFailed, poolEnded, exited >>

\* Step 4: the ZIP-CBSA file arrived
GeoCbsaDownloaded ==
  /\ pc = "g_dl_cbsa"
  /\ depth <= MaxRedirects
  /\ \E file \in CbsaFiles :
       LET zipCol == FindIndex(file.header, ReZip)
           cbsaCol == FindIndex(file.header, ReCbsa)
           metroCol == FindIndex(file.header, ReMetroName)
       IN IF metroCol > 0
            THEN /\ zipMetro' = BuildZipMetro(file.rows, zipCol, metroCol, 1, EmptyMap)
                 /\ cbsaCodes' = cbsaCodes
                 /\ Enter("g_build")
            ELSE IF cbsaCol > 0
              THEN /\ cbsaCodes' = BuildZipMetro(file.rows, zipCol, cbsaCol, 1, EmptyMap)
                   /\ zipMetro' = zipMetro
                   /\ Enter("g_dl_names")
              ELSE /\ UNCHANGED << cbsaCodes, zipMetro >>
                   /\ Enter("g_build")
  /\ UNCHANGED << countyFipsToMetro, countyNameToFips, script, argv, pkg, table, table0, failedUrls, zipGeo, updates, i,
                  sent, queries, dbFailed, poolEnded, exited >>

\* Step 4, second file: the CBSA names arrived
GeoNamesDownloaded ==
  /\ pc = "g_dl_names"
  /\ depth <= MaxRedirects
  /\ \E file \in NamesFiles :
       LET codeCol == FindIndex(file.header, ReCode)
           titleCol == FindIndex(file.header, ReTitle)
       IN zipMetro' = IF codeCol > 0 /\ titleCol > 0
                        THEN JoinNames(cbsaCodes,
                               BuildNameMap(file.rows, codeCol, titleCol, 1, EmptyMap))
                        ELSE zipMetro
  /\ Enter("g_build")
  /\ UNCHANGED << countyFipsToMetro, countyNameToFips, script, argv, pkg, table, table0, failedUrls, zipGeo, cbsaCodes,
                  updates, i, sent, queries, dbFailed, poolEnded, exited >>

\* Step 5: the rows with a gap, the update list, the dry-run branch
GeoBuild ==
  /\ pc = "g_build"
  /\ queries' = queries + 1
  /\ updates' = GeoBuildUpdates(table, Len(table), zipGeo, zipMetro)
  /\ i' = 0
  /\ Enter(AfterBuild(DRY_RUN))
  /\ UNCHANGED << countyFipsToMetro, countyNameToFips, script, argv, pkg, table, table0, failedUrls, zipGeo, cbsaCodes,
                  zipMetro, sent, dbFailed, poolEnded, exited >>

\* Step 6: one iteration of the batch loop
GeoBatchUpdate ==
  /\ script = "geo"
  /\ pc = "batch"
  /\ i < Len(updates)
  /\ Len(sent) < MaxStatements
  /\ LET stmt == GeoStatement(BatchOf(updates, i, BATCH_SIZE))
     IN /\ \E pick \in [1..Len(table) -> 0..Len(stmt.zips)] :
             /\ ValidPick(table, stmt, pick)
             /\ table' = GeoApply(table, stmt, pick, Len(sent) + 1)
        /\ sent' = Append(sent, stmt)
  /\ queries' = queries + 1
  /\ i' = i + BATCH_SIZE
  /\ UNCHANGED << countyFipsToMetro, countyNameToFips, script, argv, pkg, table0, pc, depth, calls, failedUrls, entered,
                  zipGeo, cbsaCodes, zipMetro, updates, dbFailed, poolEnded, exited >>

\* ---------------------------------------------------- actions, metro script
\* Step 1: the counties that need a metro; then download(url) of the crosswalk
MetroQueryCounties ==
  /\ pc = "m_counties"
  /\ queries' = queries + 1
  /\ Enter("m_dl_nber")
  /\ UNCHANGED << countyFipsToMetro, countyNameToFips, script, argv, pkg, table, table0,
                  failedUrls, zipGeo, cbsaCodes, zipMetro, updates, i, sent, dbFailed,
                  poolEnded, exited >>

\* Step 2: the crosswalk arrived; build countyFipsToMetro, abort when it is empty
MetroNberDownloaded ==
  /\ pc = "m_dl_nber"
  /\ depth <= MaxRedirects
  /\ \E file \in NberFiles :
       /\ countyFipsToMetro' = BuildFipsToMetro(file, 1, EmptyMap)
       /\ Enter(AfterCbsa(countyFipsToMetro'))
  /\ UNCHANGED << countyNameToFips, script, argv, pkg, table, table0,
                  failedUrls, zipGeo, cbsaCodes, zipMetro, updates, i, sent, queries,
                  dbFailed, poolEnded, exited >>

\* Step 2, fallback file arrived: its rows are counted and nothing is built
MetroFallbackDownloaded ==
  /\ pc = "m_dl_fallback"
  /\ depth <= MaxRedirects
  /\ Enter(AfterCbsa(countyFipsToMetro))
  /\ UNCHANGED << countyFipsToMetro, countyNameToFips, script, argv, pkg, table, table0,
                  failedUrls, zipGeo, cbsaCodes, zipMetro, updates, i, sent, queries,
                  dbFailed, poolEnded, exited >>

\* Step 3: the county FIPS file arrived; build countyNameToFips
MetroFipsDownloaded ==
  /\ pc = "m_dl_fips"
  /\ depth <= MaxRedirects
  /\ \E file \in FipsFiles : countyNameToFips' = BuildNameToFips(file, 1, EmptyMap)
  /\ Enter("m_zips")
  /\ UNCHANGED << countyFipsToMetro, script, argv, pkg, table, table0,
                  failedUrls, zipGeo, cbsaCodes, zipMetro, updates, i, sent, queries,
                  dbFailed, poolEnded, exited >>

\* Step 4: the rows that need a metro, the matching loop, the dry-run branch
MetroMatch ==
  /\ pc = "m_zips"
  /\ queries' = queries + 1
  /\ updates' = MetroBuildUpdates(table, Len(table), countyNameToFips, countyFipsToMetro)
  /\ i' = 0
  /\ Enter(AfterBuild(DRY_RUN))
  /\ UNCHANGED << countyFipsToMetro, countyNameToFips, script, argv, pkg, table, table0,
                  failedUrls, zipGeo, cbsaCodes, zipMetro, sent, dbFailed, poolEnded,
                  exited >>

\* Step 5: one iteration of the batch loop
MetroBatchUpdate ==
  /\ script = "metro"
  /\ pc = "batch"
  /\ i < Len(updates)
  /\ Len(sent) < MaxStatements
  /\ LET stmt == MetroStatement(BatchOf(updates, i, BATCH_SIZE))
     IN /\ \E pick \in [1..Len(table) -> 0..Len(stmt.zips)] :
             /\ ValidPick(table, stmt, pick)
             /\ table' = MetroApply(table, stmt, pick, Len(sent) + 1)
        /\ sent' = Append(sent, stmt)
  /\ queries' = queries + 1
  /\ i' = i + BATCH_SIZE
  /\ UNCHANGED << countyFipsToMetro, countyNameToFips, script, argv, pkg, table0, pc,
                  depth, calls, failedUrls, entered, zipGeo, cbsaCodes, zipMetro,
                  updates, dbFailed, poolEnded, exited >>

\* the loop is over; the verification counts (either script)
Verify ==
  /\ pc = "batch"
  /\ ~(i < Len(updates))
  /\ queries' = queries + 1
  /\ Enter("end")
  /\ UNCHANGED << countyFipsToMetro, countyNameToFips, script, argv, pkg, table, table0, failedUrls, zipGeo, cbsaCodes,
                  zipMetro, updates, i, sent, dbFailed, poolEnded, exited >>

Next ==
  \/ QueryFails
  \/ Redirect
  \/ DownloadFails
  \/ PoolEnd
  \/ GeoQueryGaps
  \/ GeoDownloaded
  \/ GeoQueryAllZips
  \/ GeoCbsaDownloaded
  \/ GeoNamesDownloaded
  \/ GeoBuild
  \/ GeoBatchUpdate
  \/ MetroQueryCounties
  \/ MetroNberDownloaded
  \/ MetroFallbackDownloaded
  \/ MetroFipsDownloaded
  \/ MetroMatch
  \/ MetroBatchUpdate
  \/ Verify

Spec == Init /\ [][Next]_vars

\* with fairness: main() is a chain of awaits, every one of which settles
FairSpec == Spec /\ WF_vars(Next)

\* ------------------------------------------------------------------ claims
\* C1: with --dry-run no UPDATE statement is issued, housing_stats keeps the
\* contents it had when the run started, and the pool is closed when main()
\* returns
C1_DryRunWritesNothing ==
  argv.dry => /\ sent = <<>>
              /\ table = table0
              /\ (pc = "done" => poolEnded)

C1_Witness ==
  /\ argv.dry
  /\ pc = "done"
  /\ updates # <<>>
  /\ poolEnded

\* C3: a rejected pool.query is handled only by the top-level catch: the
\* step that rejects leaves housing_stats and the statements already sent as
\* they are (no rollback), the process exits with status 1, and afterwards
\* no query or UPDATE is issued and the table no longer changes
C3_DbErrorIsFatal ==
  [][ /\ (dbFailed' /\ ~dbFailed =>
            table' = table /\ sent' = sent /\ pc' = "fatal" /\ exited' = "1")
      /\ (dbFailed =>
            queries' = queries /\ sent' = sent /\ table' = table /\ exited' = "1") ]_vars

\* the second or a later batched UPDATE rejected after earlier ones were applied
C3_Witness ==
  /\ dbFailed
  /\ pc = "fatal"
  /\ exited = "1"
  /\ Len(sent) >= 1
  /\ i < Len(updates)
  /\ table # table0

\* C4: no retry: every URL is passed to download at most once per run, a URL
\* whose download failed is not requested again, and every step is entered at
\* most once
C4_NoRetry ==
  /\ [](\A u \in Urls : calls[u] <= 1)
  /\ [](\A p \in Steps : entered[p] <= 1)
  /\ [][\A u \in failedUrls : calls'[u] = calls[u]]_vars

\* both downloads of the metro script's second step failed and the run ended
C4_Witness ==
  /\ script = "metro"
  /\ Cardinality(failedUrls) = 2
  /\ pc = "done"
  /\ \A u \in failedUrls : calls[u] = 1

\* C5: the zipcodes package is only a fallback for state.  Over the step that
\* runs the package loop, for every ZIP of housing_stats: a non-empty state
\* of the downloaded dataset is kept; where the dataset has no entry or an
\* empty state, the package's state (when it has one) is the one used; a
\* county name of the dataset is kept and a new entry gets no county name.
\* Entries for other ZIPs are left alone.
TableZips == {table[r].zip_code : r \in 1..Len(table)}

PackageStateUsed(before, after, zip) ==
  /\ zip \in DOMAIN after
  /\ zip \in DOMAIN pkg
  /\ Truthy(pkg[zip].state)
  /\ after[zip].state_abbr = pkg[zip].state
  /\ (zip \in DOMAIN before => before[zip].state_abbr # pkg[zip].state)

DatasetLacksState(before, zip) ==
  zip \notin DOMAIN before \/ ~Truthy(before[zip].state_abbr)

\* C5: the package's state is used exactly where the dataset has none
C5_PackageIsFallback ==
  [][ pc = "g_allzips" /\ pc' = "g_dl_cbsa" =>
        /\ \A zip \in TableZips :
             /\ (PackageStateUsed(zipGeo, zipGeo', zip) => DatasetLacksState(zipGeo, zip))
             /\ (DatasetLacksState(zipGeo, zip) /\ zip \in DOMAIN pkg
                   /\ Truthy(pkg[zip].state) =>
                      zip \in DOMAIN zipGeo' /\ zipGeo'[zip].state_abbr = pkg[zip].state)
             /\ (~DatasetLacksState(zipGeo, zip) => zipGeo'[zip] = zipGeo[zip])
             /\ (zip \in DOMAIN zipGeo =>
                   zipGeo'[zip].county_name = zipGeo[zip].county_name)
             /\ (zip \notin DOMAIN zipGeo /\ zip \in DOMAIN zipGeo' =>
                   zipGeo'[zip].county_name = Empty)
        /\ \A zip \in DOMAIN zipGeo' \ TableZips :
             zip \in DOMAIN zipGeo /\ zipGeo'[zip] = zipGeo[zip]
        /\ DOMAIN zipGeo \subseteq DOMAIN zipGeo' ]_vars

\* after the package loop: the dataset's TX for 78701 stands although the
\* package says CA, and 00501, absent from the dataset, got the package's NY
C5_Witness ==
  /\ pc = "g_dl_cbsa"
  /\ {Z787, Z005} \subseteq TableZips
  /\ pkg[Z787].state = CA
  /\ Z787 \in DOMAIN zipGeo /\ zipGeo[Z787].state_abbr = TX
  /\ Z005 \in DOMAIN zipGeo /\ zipGeo[Z005] = [state_abbr |-> NY, county_name |-> Empty]

\* C7: with B >= 1 the batch loop partitions the update list: the k-th
\* statement carries the entries (k-1)B+1 .. min(kB, n) in list order, all
\* columns of one entry at the same position; so no batch is larger than B,
\* every entry is sent once, and a finished loop has sent ceil(n/B) statements
Ceil(n, b) == (n + b - 1) \div b

Min(a, b) == IF a < b THEN a ELSE b

BatchLen(k) == Min(BATCH_SIZE, Len(updates) - (k - 1) * BATCH_SIZE)

EntryAt(stmt, j) ==
  IF script = "geo"
    THEN [zip_code |-> stmt.zips[j], state_abbr |-> stmt.states[j],
          county_name |-> stmt.counties[j], metro_area |-> stmt.metros[j]]
    ELSE [zip_code |-> stmt.zips[j], metro_area |-> stmt.metros[j]]

StatementArrays(stmt) ==
  IF script = "geo" THEN {stmt.zips, stmt.states, stmt.counties, stmt.metros}
  ELSE {stmt.zips, stmt.metros}

\* C7: the statements sent are the consecutive slices of the update list
C7_BatchesPartitionUpdates ==
  BATCH_SIZE >= 1 =>
    /\ \A k \in 1..Len(sent) :
         /\ \A arr \in StatementArrays(sent[k]) : Len(arr) = BatchLen(k)
         /\ BatchLen(k) >= 1 /\ BatchLen(k) <= BATCH_SIZE
         /\ \A j \in 1..BatchLen(k) :
              EntryAt(sent[k], j) = updates[(k - 1) * BATCH_SIZE + j]
    /\ (pc = "batch" => i = Len(sent) * BATCH_SIZE)
    /\ (pc \in {"end", "done"} /\ ~argv.dry /\ entered["batch"] = 1 =>
          Len(sent) = Ceil(Len(updates), BATCH_SIZE))

\* two updates were sent one per statement, and the loop is over
C7_Witness ==
  /\ BATCH_SIZE = 1
  /\ Len(updates) = 2
  /\ Len(sent) = 2
  /\ updates[1] # updates[2]
  /\ pc = "end"

\* C6: for every --batch-size value the batch loop of geo-enrich.js
\* terminates: every iteration moves the index forward, so the loop sends at
\* most one statement per entry of the update list before the verification
C6_BatchLoopTerminates ==
  [][ script = "geo" /\ pc = "batch" /\ sent' # sent =>
        /\ i' > i
        /\ Len(sent') <= Len(updates) ]_vars

\* C8: geo-enrich.js only fills gaps: a column of a row that was non-null
\* and non-empty when the run started keeps its value
Columns == {"state_abbr", "county_name", "metro_area"}

\* C8: columns that had a value when the run started still have it
C8_OnlyFillsGaps ==
  script = "geo" =>
    \A r \in 1..Len(table) : \A c \in Columns :
      Truthy(table0[r][c]) => table[r][c] = table0[r][c]

\* C9: the metro script puts a row in the update list with metro area M only
\* through the join county name -> FIPS -> CBSA name: the row's state is a key
\* of STATE_FIPS, its county name is non-empty, and the county-name map sends
\* "state|lower-cased county name", as it is or shortened, to a FIPS code that
\* the CBSA map sends to M; rows without such a join contribute no entry.
\* Shortened, as the claim has it: one trailing suffix removed.
C9_SuffixRemoved(county) == RemoveSuffix(county, RowSuffixes)

\* Shortened, as amended: one trailing suffix removed, then white space at
\* both ends removed.
C9_SuffixRemovedAndTrimmed(county) == Trim(RemoveSuffix(county, RowSuffixes))

C9_JoinGives(row, M, Shorten(_)) ==
  LET county == toLowerCase(OrEmpty(row.county_name))
  IN /\ row.state_abbr \in DOMAIN STATE_FIPS
     /\ Truthy(row.county_name)
     /\ \E f \in {countyNameToFips[key] : key \in DOMAIN countyNameToFips} :
          /\ \/ MapGet(countyNameToFips, Key(row.state_abbr, county)) = f
             \/ MapGet(countyNameToFips, Key(row.state_abbr, Shorten(county))) = f
          /\ MapGet(countyFipsToMetro, f) = M

C9_ListBuilt == script = "metro" /\ pc \in {"batch", "end", "done"} /\ entered["m_zips"] = 1

C9_JoinedRows(Shorten(_)) ==
  {r \in 1..Len(table0) :
     \E f \in DOMAIN countyFipsToMetro :
       C9_JoinGives(table0[r], countyFipsToMetro[f], Shorten)}

C9_Holds(Shorten(_)) ==
  C9_ListBuilt =>
    /\ \A k \in 1..Len(updates) :
         \E r \in 1..Len(table0) :
           /\ table0[r].zip_code = updates[k].zip_code
           /\ C9_JoinGives(table0[r], updates[k].metro_area, Shorten)
    /\ Len(updates) <= Cardinality(C9_JoinedRows(Shorten))

C2_FillsListed ==
  \A r \in 1..Len(table0) :
    LET row == table0[r]
        known == row.zip_code \in DOMAIN zipGeo
    IN /\ (Missing(row.state_abbr) /\ known /\ Truthy(zipGeo[row.zip_code].state_abbr) =>
             \E k \in 1..Len(updates) :
               /\ updates[k].zip_code = row.zip_code
               /\ updates[k].state_abbr = zipGeo[row.zip_code].state_abbr)
       /\ (Missing(row.county_name) /\ known /\ Truthy(zipGeo[row.zip_code].county_name) =>
             \E k \in 1..Len(updates) :
               /\ updates[k].zip_code = row.zip_code
               /\ updates[k].county_name = zipGeo[row.zip_code].county_name)

====
